---- MODULE Spec2Model ----
(***************************************************************************)
(* A model of miner_panel (src/main.py): the TCP JSON client, the reply    *)
(* normalizers, the thread-pool refresh (get_live_data) and the weekly     *)
(* login tracker (update_login_data / get_week_report).                    *)
(*                                                                         *)
(* Python values are tagged records whose first field k names the type:    *)
(*   [k |-> "none"]                     None                               *)
(*   [k |-> "num", m |-> 583, e |-> 1]  the decimal number 58.3 (m*10^-e)  *)
(*   [k |-> "str", v |-> "abc"]         a str                              *)
(*   [k |-> "list", v |-> <<...>>]      a list                             *)
(*   [k |-> "dict", v |-> f]            a dict, f a function on its keys   *)
(*   [k |-> "pretty", v |-> <<...>>]    a str built by                     *)
(*                                      format_seconds_pretty              *)
(*   [k |-> "text", v |-> <<49, 52>>]   a str built by strftime, as the    *)
(*                                      sequence of its code points        *)
(*   [k |-> "time", t |-> 300]          an aware datetime                  *)
(***************************************************************************)
EXTENDS Integers, Sequences, FiniteSets, TLC

(***************************************************************************)
(* Python values                                                           *)
(***************************************************************************)
PyNone == [k |-> "none"]

RECURSIVE Pow10(_)
Pow10(n) == IF n = 0 THEN 1 ELSE 10 * Pow10(n - 1)

\* the decimal m*10^-e with trailing zeros of the fraction removed, so that
\* equal numbers are equal records (45.0 == 45 in Python)
RECURSIVE Normalize(_, _)
Normalize(m, e) ==
  IF e > 0 /\ m % 10 = 0 THEN Normalize(m \div 10, e - 1)
  ELSE [k |-> "num", m |-> m, e |-> e]

Num(m, e) == Normalize(m, e)
Str(s) == [k |-> "str", v |-> s]
List(s) == [k |-> "list", v |-> s]
Dict(f) == [k |-> "dict", v |-> f]
EmptyDict == Dict(<<>>)

IsNum(x) == x.k = "num"
IsDict(x) == x.k = "dict"

\* bool(x): None, 0, "", [] and {} are false
Truthy(x) ==
  CASE x.k = "none" -> FALSE
    [] x.k = "num" -> x.m # 0
    [] x.k = "str" -> x.v # ""
    [] x.k = "list" -> x.v # <<>>
    [] x.k = "text" -> x.v # <<>>
    [] x.k = "dict" -> DOMAIN x.v # {}
    [] OTHER -> TRUE

\* d.get(key) on a dict
PyGet(d, key) == IF key \in DOMAIN d.v THEN d.v[key] ELSE PyNone

\* x > y for two numbers
NumGreater(x, y) ==
  LET s == IF x.e > y.e THEN x.e ELSE y.e
  IN  x.m * Pow10(s - x.e) > y.m * Pow10(s - y.e)

\* round(x, d) for a non-negative number, ties to even
RoundTo(x, d) ==
  IF x.e <= d THEN x
  ELSE LET p == Pow10(x.e - d)
           q == x.m \div p
           r == x.m % p
           up == (2 * r > p) \/ (2 * r = p /\ q % 2 = 1)
       IN  Num(IF up THEN q + 1 ELSE q, d)

\* the strs int() and float() accept, among the strs of the model
IntLiterals == [s \in {"120"} |-> 120]
FloatLiterals == [s \in {"120"} |-> Num(120, 0)]

Ok(v) == [ok |-> TRUE, val |-> v]
Raises == [ok |-> FALSE]

\* int(x): truncates a number, parses a str, raises on anything else
PyInt(x) ==
  CASE x.k = "num" -> Ok(x.m \div Pow10(x.e))
    [] x.k = "str" -> IF x.v \in DOMAIN IntLiterals THEN Ok(IntLiterals[x.v]) ELSE Raises
    [] OTHER -> Raises

\* float(x)
PyFloat(x) ==
  CASE x.k = "num" -> Ok(x)
    [] x.k = "str" -> IF x.v \in DOMAIN FloatLiterals THEN Ok(FloatLiterals[x.v]) ELSE Raises
    [] OTHER -> Raises

(***************************************************************************)
(* CONFIG                                                                  *)
(***************************************************************************)
\* str values are sequences of code points where their order matters
MINER_NAMES == << <<49, 51, 49>>, <<49, 51, 50>>, <<49, 51, 51>>,
                  <<54, 53>>, <<54, 54>>, <<55, 48>> >>
MINER_PORTS == <<204, 205, 206, 304, 305, 306>>
MAX_WORKERS == 6

(***************************************************************************)
(* State                                                                   *)
(***************************************************************************)
VARIABLES
  \* one poll_miner call, statement by statement
  pm_pc,      \* where the call is
  pm_miner,   \* its argument
  pm_ci,      \* the index in Commands of the command of the loop, line 189
  pm_chunks,  \* chunks of the current send_tcp_json call, lines 56-62
  pm_more,    \* parity of the chunks received beyond those pm_chunks tells apart
  pm_resp,    \* resp, line 190
  pm_resps,   \* responses, line 184
  pm_result,  \* what the call returned
  pm_dec,     \* history: the commands whose call decoded a reply
  pm_conns    \* history: the commands a connection was opened for, in order

pmvars == <<pm_pc, pm_miner, pm_ci, pm_chunks, pm_more, pm_resp, pm_resps,
            pm_result, pm_dec, pm_conns>>


VARIABLES
  config,     \* MINER_NAMES, MINER_PORTS and MINER_IP
  net,        \* the behaviours the devices may show
  gl_pc,      \* where get_live_data is
  miners,     \* line 226
  futs,       \* the futures of line 231, by position: state, result
  queue,      \* the executor's work queue: positions of futures
  threads,    \* the worker threads the executor has started
  idle,       \* the executor's count of workers that became idle
  out,        \* line 227
  snapshot    \* what get_live_data returned

glvars == <<config, net, gl_pc, miners, futs, queue, threads, idle, out, snapshot>>

VARIABLES
  now,        \* the clock: seconds of Tehran local time since the epoch
  login_data, \* lines 34-38
  lt_last,    \* history: the call that has just returned, if no time passed
  lt_upd      \* history: the latest update_login_data call

ltvars == <<now, login_data, lt_last, lt_upd>>

VARIABLES
  wr,         \* the request threads in update_login_data: position and locals
  rd          \* the request threads in get_week_report: position and locals

thvars == <<wr, rd>>

VARIABLES
  ix_pc,          \* where a request for "/" is, lines 502-507
  total_hashrate  \* line 506

ixvars == <<ix_pc, total_hashrate>>

(***************************************************************************)
(* send_tcp_json: the reply text and its decoding                          *)
(*                                                                         *)
(* The text a device sends is a sequence of tokens: white space,           *)
(* brace-free garbage, a truncated object (an opening brace whose object   *)
(* never closes), or the complete text of a JSON value.                    *)
(***************************************************************************)
TokWs == [k |-> "ws"]
TokJunk == [k |-> "junk"]
TokTrunc == [k |-> "trunc"]

IsJsonTok(t) == t.k \in {"none", "num", "str", "list", "dict"}
HasOpenBrace(t) == t.k \in {"dict", "trunc"}
HasCloseBrace(t) == t.k = "dict"

\* raw.strip()
RECURSIVE LStrip(_)
LStrip(s) == IF s # <<>> /\ Head(s) = TokWs THEN LStrip(Tail(s)) ELSE s
RECURSIVE RStrip(_)
RStrip(s) ==
  IF s # <<>> /\ s[Len(s)] = TokWs THEN RStrip(SubSeq(s, 1, Len(s) - 1)) ELSE s
Strip(s) == RStrip(LStrip(s))

\* json.loads(text): the text must be exactly one JSON value
JsonLoads(s) == IF Len(s) = 1 /\ IsJsonTok(s[1]) THEN Ok(s[1]) ELSE Raises

\* lines 65-80: strict parse, then the substring from the first "{" to the
\* last "}"
Decode(chunks) ==
  LET raw == Strip(chunks)
      opens == {i \in 1..Len(raw) : HasOpenBrace(raw[i])}
      closes == {i \in 1..Len(raw) : HasCloseBrace(raw[i])}
  IN  IF raw = <<>> THEN Raises
      ELSE IF JsonLoads(raw).ok THEN JsonLoads(raw)
      ELSE IF opens # {} /\ closes # {}
        THEN LET first == CHOOSE i \in opens : \A j \in opens : i <= j
                 last == CHOOSE i \in closes : \A j \in closes : i >= j
             IN  IF last >= first THEN JsonLoads(SubSeq(raw, first, last))
                 ELSE Raises
      ELSE Raises

\* What the network and the device do during one send_tcp_json call:
\* conn: the connect is established ("ok") or fails or times out ("fail");
\* send: sendall succeeds or raises; chunks: the tokens recv returns, in
\* order; end: how the reading ends - the peer closes the stream, a recv
\* times out, or a recv raises another socket error.
Exchange(conn, send, chunks, end) ==
  [conn |-> conn, send |-> send, chunks |-> chunks, end |-> end]

\* the decoded reply of an exchange, or Raises when the call has none
Decoded(ip, x) ==
  IF ip = PyNone \/ x.conn # "ok" \/ x.send # "ok" \/ x.end = "reset" THEN Raises
  ELSE Decode(x.chunks)

\* the value send_tcp_json returns: the parsed JSON, or None
send_tcp_json(ip, x) == IF Decoded(ip, x).ok THEN Decoded(ip, x).val ELSE PyNone

(***************************************************************************)
(* HELPERS                                                                 *)
(***************************************************************************)
\* the str "1d 2h 3m" is the sequence of its parts
Part(n, u) == [n |-> n, u |-> u]
Pretty(parts) == [k |-> "pretty", v |-> parts]

format_seconds_pretty(sec) ==
  LET days == sec \div 86400
      rem1 == sec % 86400
      hours == rem1 \div 3600
      rem2 == rem1 % 3600
      minutes == rem2 \div 60
      seconds == rem2 % 60
      p1 == IF days # 0 THEN <<Part(days, "d")>> ELSE <<>>
      p2 == IF hours # 0 THEN Append(p1, Part(hours, "h")) ELSE p1
      p3 == IF minutes # 0 THEN Append(p2, Part(minutes, "m")) ELSE p2
      p4 == IF p3 = <<>> /\ seconds # 0 THEN Append(p3, Part(seconds, "s")) ELSE p3
  IN  Pretty(p4)

\* lines 108-114: the payload of a summary reply
SummaryData(summary_json) ==
  IF IsDict(summary_json) /\ "SUMMARY" \in DOMAIN summary_json.v
     /\ Truthy(summary_json.v["SUMMARY"])
  THEN LET s == summary_json.v["SUMMARY"]
       IN  IF s.k = "list" THEN s.v[1]
           ELSE IF s.k = "str" THEN s
           ELSE PyNone
  ELSE IF IsDict(summary_json) /\ "Msg" \in DOMAIN summary_json.v
          /\ IsDict(summary_json.v["Msg"])
  THEN summary_json.v["Msg"]
  ELSE PyNone

\* a hashrate that is left in the unit of the device
Hashrate_Raw(mhs_av) == mhs_av

\* lines 121-130
Hashrate(mhs_av) ==
  IF mhs_av = PyNone THEN PyNone
  ELSE IF IsNum(mhs_av) /\ NumGreater(mhs_av, Num(1000000, 0))
  THEN RoundTo(Num(mhs_av.m, mhs_av.e + 6), 2)
  ELSE mhs_av

\* lines 132-135
PowerVal(power) ==
  IF power # PyNone /\ PyInt(power).ok THEN Num(PyInt(power).val, 0) ELSE PyNone

\* lines 136-139
TempVal(temp) ==
  IF temp # PyNone /\ PyFloat(temp).ok THEN RoundTo(PyFloat(temp).val, 1) ELSE PyNone

parse_summary(summary_json) ==
  IF ~Truthy(summary_json) THEN Ok(EmptyDict)
  ELSE LET data == SummaryData(summary_json)
       IN  IF ~Truthy(data) THEN Ok(EmptyDict)
           ELSE IF ~IsDict(data) THEN Raises       \* data.get: AttributeError
           ELSE LET mhs_av == PyGet(data, "MHS av")
                    uptime == IF Truthy(PyGet(data, "Uptime"))
                              THEN PyGet(data, "Uptime") ELSE PyGet(data, "Elapsed")
                    power == PyGet(data, "Power")
                    temp == PyGet(data, "Temperature")
                IN  IF Truthy(uptime) /\ ~PyInt(uptime).ok THEN Raises  \* int(uptime)
                    ELSE Ok(Dict([uptime |-> IF Truthy(uptime)
                                             THEN format_seconds_pretty(PyInt(uptime).val)
                                             ELSE PyNone,
                                  hashrate |-> Hashrate(mhs_av),
                                  power |-> PowerVal(power),
                                  temp_avg |-> TempVal(temp)]))

\* lines 157-163: the temperatures of the boards, skipping what fails
RECURSIVE BoardTemps(_)
BoardTemps(devs) ==
  IF devs = <<>> THEN <<>>
  ELSE LET board == Head(devs)
           temp == IF IsDict(board) THEN PyGet(board, "Temperature") ELSE PyNone
       IN  IF temp # PyNone /\ PyFloat(temp).ok
           THEN <<RoundTo(PyFloat(temp).val, 1)>> \o BoardTemps(Tail(devs))
           ELSE BoardTemps(Tail(devs))

parse_devs(devs_json) ==
  IF ~Truthy(devs_json) \/ ~IsDict(devs_json) THEN Ok(<<>>)
  ELSE LET devs == PyGet(devs_json, "DEVS")
       IN  IF ~Truthy(devs) THEN Ok(<<>>)
           ELSE IF devs.k = "list" THEN Ok(BoardTemps(devs.v))
           ELSE IF devs.k \in {"str", "dict"} THEN Ok(<<>>)  \* no item has .get
           ELSE Raises                                        \* not iterable

(***************************************************************************)
(* POLLING                                                                 *)
(***************************************************************************)
\* the decimal digits of a natural number, as code points
RECURSIVE Digits(_)
Digits(n) == IF n < 10 THEN <<48 + n>> ELSE Append(Digits(n \div 10), 48 + (n % 10))

\* f"{name} ({port})"
Label(name, port) == name \o <<32, 40>> \o Digits(port) \o <<41>>

\* lines 174-181
OfflineResult(miner) ==
  [name |-> Label(miner.name, miner.port), alive |-> FALSE, hashrate |-> PyNone,
   uptime |-> PyNone, power |-> PyNone, board_temps |-> <<>>]

\* lines 189-201: the replies kept, by command name
Responses(resp_summary, resp_devs) ==
  [c \in {c \in {"summary", "devs"} :
            Truthy(IF c = "summary" THEN resp_summary ELSE resp_devs)} |->
     IF c = "summary" THEN resp_summary ELSE resp_devs]

\* a poll_miner without the return of line 203
AnyResponse_NoReturn(responses) == TRUE

\* lines 202-203
AnyResponse(responses) == DOMAIN responses # {}

\* lines 204-212: the record of a miner that answered, or Raises
AliveResult(miner, responses) ==
  LET summary == IF "summary" \in DOMAIN responses
                 THEN parse_summary(responses["summary"]) ELSE Ok(EmptyDict)
      devs == IF "devs" \in DOMAIN responses
              THEN parse_devs(responses["devs"]) ELSE Ok(<<>>)
  IN  IF ~summary.ok \/ ~devs.ok THEN Raises
      ELSE Ok([name |-> Label(miner.name, miner.port), alive |-> TRUE,
               hashrate |-> PyGet(summary.val, "hashrate"),
               uptime |-> PyGet(summary.val, "uptime"),
               power |-> PyGet(summary.val, "power"),
               board_temps |-> devs.val])

\* poll_miner on the exchanges of its two calls
poll_miner(miner, x_summary, x_devs) ==
  IF miner.ip = PyNone THEN Ok(OfflineResult(miner))
  ELSE LET responses == Responses(send_tcp_json(miner.ip, x_summary),
                                  send_tcp_json(miner.ip, x_devs))
       IN  IF ~AnyResponse(responses) THEN Ok(OfflineResult(miner))
           ELSE AliveResult(miner, responses)

\* lines 214-223
build_miners(names, ports, ip) ==
  [i \in 1..(IF Len(names) < Len(ports) THEN Len(names) ELSE Len(ports)) |->
     [name |-> names[i], ip |-> ip, port |-> ports[i]]]

(***************************************************************************)
(* The replies of the model's devices                                      *)
(***************************************************************************)
SummaryGood ==
  Dict([SUMMARY |-> List(<<Dict("MHS av" :> Num(45000000, 0) @@ "Uptime" :> Num(93784, 0)
                                @@ "Power" :> Num(3400, 0))>>)])
DevsGood ==
  Dict([DEVS |-> List(<<Dict([Temperature |-> Num(583, 1)]),
                        Dict([Temperature |-> Num(61, 0)])>>)])
\* an Uptime that int() rejects
SummaryBadUptime ==
  Dict([SUMMARY |-> List(<<Dict("MHS av" :> Num(45000000, 0) @@ "Uptime" :> Str("n/a"))>>)])
\* a DEVS that is no list
DevsNotList == Dict([DEVS |-> Num(5, 0)])
\* a reply with neither payload
StatusOnly == Dict([STATUS |-> Str("E")])

JsonTexts ==
  {SummaryGood, DevsGood, SummaryBadUptime, DevsNotList, StatusOnly, EmptyDict, Num(0, 0)}
Tokens == {TokWs, TokJunk, TokTrunc} \cup JsonTexts

\* the most tokens of one reply the model keeps apart
MaxChunks == 3

\* a loop that sends the summary command once more
Commands_Retry == <<"summary", "summary", "devs">>

Commands == <<"summary", "devs">>

(***************************************************************************)
(* poll_miner, statement by statement                                      *)
(***************************************************************************)
PmOff ==
  /\ pm_pc = "off" /\ pm_miner = build_miners(MINER_NAMES, MINER_PORTS, PyNone)[1] /\ pm_ci = 1
  /\ pm_chunks = <<>> /\ pm_more = 0 /\ pm_resp = PyNone /\ pm_resps = <<>>
  /\ pm_result = Raises /\ pm_dec = {} /\ pm_conns = <<>>

PmInit ==
  /\ pm_pc = "start"
  /\ \E ip \in {PyNone, Str("10.0.0.1")}, i \in {1, Len(MINER_NAMES)} :
       pm_miner = build_miners(MINER_NAMES, MINER_PORTS, ip)[i]
  /\ pm_ci = 1 /\ pm_chunks = <<>> /\ pm_more = 0 /\ pm_resp = PyNone
  /\ pm_resps = <<>> /\ pm_result = Raises /\ pm_dec = {} /\ pm_conns = <<>>

\* lines 172-188
PmStart ==
  /\ pm_pc = "start"
  /\ IF pm_miner.ip = PyNone
     THEN pm_pc' = "returned" /\ pm_result' = Ok(OfflineResult(pm_miner))
     ELSE pm_pc' = "connect" /\ UNCHANGED pm_result
  /\ UNCHANGED <<pm_miner, pm_ci, pm_chunks, pm_more, pm_resp, pm_resps, pm_dec, pm_conns>>

\* the call of line 190 returns v
PmCallReturns(v, decoded) ==
  /\ pm_pc' = "got"
  /\ pm_resp' = v
  /\ pm_chunks' = <<>> /\ pm_more' = 0
  /\ pm_dec' = IF decoded THEN pm_dec \cup {Commands[pm_ci]} ELSE pm_dec

\* line 53: the connection is made, or the connect raises (refused,
\* unreachable, timed out) and line 81 catches it
PmConnect ==
  /\ pm_pc = "connect"
  /\ pm_conns' = Append(pm_conns, Commands[pm_ci])
  /\ \/ pm_pc' = "send" /\ UNCHANGED <<pm_resp, pm_dec, pm_chunks, pm_more>>
     \/ PmCallReturns(PyNone, FALSE)
  /\ UNCHANGED <<pm_miner, pm_ci, pm_resps, pm_result>>

\* lines 54-55: sendall succeeds, or raises (reset, timed out)
PmSend ==
  /\ pm_pc = "send"
  /\ \/ pm_pc' = "recv" /\ UNCHANGED <<pm_resp, pm_dec, pm_chunks, pm_more>>
     \/ PmCallReturns(PyNone, FALSE)
  /\ UNCHANGED <<pm_miner, pm_ci, pm_resps, pm_result, pm_conns>>

\* garbage next to garbage, white space next to white space, is one token
Merges(chunks, tok) ==
  chunks # <<>> /\ tok \in {TokWs, TokJunk} /\ chunks[Len(chunks)] = tok

\* lines 59-62: recv returns data
PmRecvData ==
  /\ pm_pc = "recv"
  /\ \E tok \in Tokens :
       IF Merges(pm_chunks, tok)
       THEN pm_more' = 1 - pm_more /\ UNCHANGED pm_chunks
       ELSE /\ Len(pm_chunks) < MaxChunks
            /\ pm_chunks' = Append(pm_chunks, tok)
            /\ UNCHANGED pm_more
  /\ UNCHANGED <<pm_pc, pm_miner, pm_ci, pm_resp, pm_resps, pm_result, pm_dec, pm_conns>>

\* lines 60-61 and 63-64: the peer closed the stream or a recv timed out;
\* lines 65-80 decode what was read
PmRecvEnd ==
  /\ pm_pc = "recv"
  /\ LET d == Decode(pm_chunks)
     IN  PmCallReturns(IF d.ok THEN d.val ELSE PyNone, d.ok)
  /\ UNCHANGED <<pm_miner, pm_ci, pm_resps, pm_result, pm_conns>>

\* line 59 raises another socket error: line 81 catches it
PmRecvError ==
  /\ pm_pc = "recv"
  /\ PmCallReturns(PyNone, FALSE)
  /\ UNCHANGED <<pm_miner, pm_ci, pm_resps, pm_result, pm_conns>>

\* lines 191-201, and the next turn of the loop of line 189
PmKeep ==
  /\ pm_pc = "got"
  /\ pm_resps' = IF Truthy(pm_resp) THEN (Commands[pm_ci] :> pm_resp) @@ pm_resps
                 ELSE pm_resps
  /\ IF pm_ci < Len(Commands)
     THEN pm_ci' = pm_ci + 1 /\ pm_pc' = "connect"
     ELSE pm_pc' = "finish" /\ UNCHANGED pm_ci
  /\ UNCHANGED <<pm_miner, pm_chunks, pm_more, pm_resp, pm_result, pm_dec, pm_conns>>

\* lines 202-212
PmFinish ==
  /\ pm_pc = "finish"
  /\ pm_result' = IF ~AnyResponse(pm_resps) THEN Ok(OfflineResult(pm_miner))
                  ELSE AliveResult(pm_miner, pm_resps)
  /\ pm_pc' = IF pm_result'.ok THEN "returned" ELSE "raised"
  /\ UNCHANGED <<pm_miner, pm_ci, pm_chunks, pm_more, pm_resp, pm_resps, pm_dec, pm_conns>>

(***************************************************************************)
(* get_live_data                                                           *)
(*                                                                         *)
(* ThreadPoolExecutor(max_workers): submit puts a work item on the queue   *)
(* and starts a worker thread unless a worker is idle or max_workers       *)
(* threads exist; a worker takes the item at the head of the queue, runs   *)
(* it, stores its result or its exception in the future, and is idle       *)
(* again.  A device task is poll_miner on the two exchanges its device     *)
(* makes with it.                                                          *)
(***************************************************************************)
XConnFail == Exchange("fail", "ok", <<>>, "close")
XStall == Exchange("ok", "ok", <<>>, "timeout")
XReply(j) == Exchange("ok", "ok", <<j>>, "close")

\* what a device does during one refresh: its summary and its devs exchange
\* the connection fails, then the device accepts one and stalls
BehDown == <<XConnFail, XStall>>
BehUp == <<XReply(SummaryGood), XReply(DevsGood)>>
\* a summary whose Uptime int() rejects: poll_miner raises
BehBadSummary == <<XReply(SummaryBadUptime), XReply(DevsGood)>>
Behaviours == {BehDown, BehUp, BehBadSummary}

\* an executor with one worker per configured device
ExecutorMaxWorkers_PerMiner == Len(config.names)

\* line 230: the limit the executor is created with
ExecutorMaxWorkers == MAX_WORKERS

\* s1 < s2 as Python compares two strs
RECURSIVE StrLess(_, _)
StrLess(s1, s2) ==
  IF s2 = <<>> THEN FALSE
  ELSE IF s1 = <<>> THEN TRUE
  ELSE IF Head(s1) # Head(s2) THEN Head(s1) < Head(s2)
  ELSE StrLess(Tail(s1), Tail(s2))

\* a sort that takes the names as numbers: the shorter name first
RECURSIVE InsertByName_Numeric(_, _)
InsertByName_Numeric(sorted, r) ==
  IF sorted = <<>> THEN <<r>>
  ELSE IF Len(r.name) < Len(Head(sorted).name)
          \/ (Len(r.name) = Len(Head(sorted).name) /\ StrLess(r.name, Head(sorted).name))
       THEN <<r>> \o sorted
  ELSE <<Head(sorted)>> \o InsertByName_Numeric(Tail(sorted), r)

\* line 239: sorted(out, key=name), a stable sort
RECURSIVE InsertByName(_, _)
InsertByName(sorted, r) ==
  IF sorted = <<>> THEN <<r>>
  ELSE IF StrLess(r.name, Head(sorted).name) THEN <<r>> \o sorted
  ELSE <<Head(sorted)>> \o InsertByName(Tail(sorted), r)
RECURSIVE SortedByName(_)
SortedByName(recs) ==
  IF recs = <<>> THEN <<>>
  ELSE InsertByName(SortedByName(SubSeq(recs, 1, Len(recs) - 1)), recs[Len(recs)])

\* line 237: the record that stands for a task that raised
FallbackResult(m) == [name |-> Label(m.name, m.port), alive |-> FALSE]

\* the loop without the try of lines 233-237
Collected_NoTry(m, res) == IF res.ok THEN Ok(res.val) ELSE Raises

\* lines 233-238: the record appended for a future, or Raises when its
\* exception leaves the loop
Collected(m, res) == IF res.ok THEN Ok(res.val) ELSE Ok(FallbackResult(m))

NoFuture == [st |-> "none", beh |-> BehDown, res |-> Raises]

Running == {i \in DOMAIN futs : futs[i].st = "running"}
Submitted == {i \in DOMAIN futs : futs[i].st # "none"}

GlOff ==
  /\ config = [names |-> <<>>, ports |-> <<>>, ip |-> PyNone] /\ net = {}
  /\ gl_pc = "off" /\ miners = <<>> /\ futs = <<>> /\ queue = <<>>
  /\ threads = 0 /\ idle = 0 /\ out = <<>> /\ snapshot = <<>>

GlInitWith(cfg, behs) ==
  /\ config = cfg /\ net = behs
  /\ gl_pc = "start" /\ miners = <<>> /\ futs = <<>> /\ queue = <<>>
  /\ threads = 0 /\ idle = 0 /\ out = <<>> /\ snapshot = <<>>

\* lines 226-230
GlStart ==
  /\ gl_pc = "start"
  /\ miners' = IF Truthy(config.ip)
               THEN build_miners(config.names, config.ports, config.ip) ELSE <<>>
  /\ IF miners' = <<>>
     THEN gl_pc' = "done" /\ futs' = <<>>
     ELSE gl_pc' = "submit" /\ futs' = [i \in DOMAIN miners' |-> NoFuture]
  /\ UNCHANGED <<config, net, queue, threads, idle, out, snapshot>>

\* line 231: ex.submit(poll_miner, m) for the next miner
GlSubmit ==
  /\ gl_pc = "submit"
  /\ LET i == Cardinality(Submitted) + 1
     IN  /\ futs' = [futs EXCEPT ![i].st = "pending"]
         /\ queue' = Append(queue, i)
         /\ IF idle > 0 THEN idle' = idle - 1 /\ UNCHANGED threads
            ELSE IF threads < ExecutorMaxWorkers
            THEN threads' = threads + 1 /\ UNCHANGED idle
            ELSE UNCHANGED <<threads, idle>>
         /\ gl_pc' = IF i = Len(miners) THEN "collect" ELSE "submit"
  /\ UNCHANGED <<config, net, miners, out, snapshot>>

\* a worker that runs nothing takes the head of the queue: poll_miner starts
WorkerTake ==
  /\ queue # <<>>
  /\ Cardinality(Running) < threads
  /\ futs' = [futs EXCEPT ![Head(queue)].st = "running"]
  /\ queue' = Tail(queue)
  /\ UNCHANGED <<config, net, gl_pc, miners, threads, idle, out, snapshot>>

\* poll_miner returns or raises: the future holds the result or the
\* exception, the worker is idle
WorkerFinish ==
  /\ \E i \in Running, beh \in net :
       futs' = [futs EXCEPT ![i] = [st |-> "finished", beh |-> beh,
                                    res |-> poll_miner(miners[i], beh[1], beh[2])]]
  /\ idle' = idle + 1
  /\ UNCHANGED <<config, net, gl_pc, miners, queue, threads, out, snapshot>>

\* lines 232-238: fut.result() of the next future, once it is finished
GlCollect ==
  /\ gl_pc = "collect"
  /\ LET i == Len(out) + 1
         c == Collected(miners[i], futs[i].res)
     IN  /\ futs[i].st = "finished"
         /\ IF c.ok
            THEN /\ out' = Append(out, c.val)
                 /\ gl_pc' = IF i = Len(miners) THEN "exit" ELSE "collect"
            ELSE gl_pc' = "unwind" /\ UNCHANGED out
  /\ UNCHANGED <<config, net, miners, futs, queue, threads, idle, snapshot>>

\* the end of the with block, line 230: shutdown(wait=True) returns when no
\* work is left and no worker runs; then line 239, or the exception goes on
GlExit ==
  /\ gl_pc \in {"exit", "unwind"}
  /\ queue = <<>> /\ Running = {}
  /\ IF gl_pc = "exit"
     THEN gl_pc' = "done" /\ snapshot' = SortedByName(out)
     ELSE gl_pc' = "raised" /\ UNCHANGED snapshot
  /\ UNCHANGED <<config, net, miners, futs, queue, threads, idle, out>>

GlNext == GlStart \/ GlSubmit \/ WorkerTake \/ WorkerFinish \/ GlCollect \/ GlExit

(***************************************************************************)
(* calculate_total_hashrate and the page "/"                               *)
(***************************************************************************)
\* x + y for two numbers
NumAdd(x, y) ==
  LET s == IF x.e > y.e THEN x.e ELSE y.e
  IN  Num(x.m * Pow10(s - x.e) + y.m * Pow10(s - y.e), s)

\* miner.get("alive"), miner.get("hashrate") on a record of the snapshot
AliveOf(miner) == "alive" \in DOMAIN miner /\ miner.alive
HashrateOf(miner) == IF "hashrate" \in DOMAIN miner THEN miner.hashrate ELSE PyNone

\* lines 243-248: total after the loop over miners
RECURSIVE TotalLoop(_, _)
TotalLoop(miners_, total) ==
  IF miners_ = <<>> THEN total
  ELSE LET miner == Head(miners_)
           f == PyFloat(HashrateOf(miner))
       IN  TotalLoop(Tail(miners_),
                     IF AliveOf(miner) /\ HashrateOf(miner) # PyNone /\ f.ok
                     THEN NumAdd(total, f.val) ELSE total)

\* a total that is not rounded
calculate_total_hashrate_NoRound(miners_) == TotalLoop(miners_, Num(0, 0))

\* lines 241-249
calculate_total_hashrate(miners_) == RoundTo(TotalLoop(miners_, Num(0, 0)), 2)

IxOff == ix_pc = "off" /\ total_hashrate = PyNone

\* a request for "/" has arrived and is about to call get_live_data, line 505
IxInit == ix_pc = "polling" /\ total_hashrate = PyNone

\* lines 505-507: get_live_data has returned the snapshot; the total is
\* computed and the page rendered
IndexRender ==
  /\ ix_pc = "polling"
  /\ gl_pc = "done"
  /\ total_hashrate' = calculate_total_hashrate(snapshot)
  /\ ix_pc' = "rendered"

\* both calls reach the device and time out waiting for its reply
BehTimeout == <<XStall, XStall>>

(***************************************************************************)
(* LOGIN / WEEK REPORT                                                     *)
(*                                                                         *)
(* The clock counts the seconds of Tehran local time since Saturday        *)
(* 1402/12/26 00:00:00 (16 March 2024).  A Jalali date is <<y, m, d>>;     *)
(* strftime and strptime turn it into the str "1402/12/26" and back.       *)
(***************************************************************************)
EpochDate == <<1402, 12, 26>>
SecondsPerDay == 24 * 3600
SecondsPerWeek == 7 * SecondsPerDay

\* jdatetime: the leap years of the 33 year cycle
IsLeap(y) == (y % 33) \in {1, 5, 9, 13, 17, 22, 26, 30}
MonthLen(y, m) ==
  IF m <= 6 THEN 31 ELSE IF m <= 11 THEN 30 ELSE IF IsLeap(y) THEN 30 ELSE 29

NextDay(d) ==
  IF d[3] < MonthLen(d[1], d[2]) THEN <<d[1], d[2], d[3] + 1>>
  ELSE IF d[2] < 12 THEN <<d[1], d[2] + 1, 1>>
  ELSE <<d[1] + 1, 1, 1>>
PrevDay(d) ==
  IF d[3] > 1 THEN <<d[1], d[2], d[3] - 1>>
  ELSE IF d[2] > 1 THEN <<d[1], d[2] - 1, MonthLen(d[1], d[2] - 1)>>
  ELSE <<d[1] - 1, 12, MonthLen(d[1] - 1, 12)>>

\* date + timedelta(days=n), date - timedelta(days=n)
RECURSIVE AddDays(_, _)
AddDays(d, n) == IF n = 0 THEN d ELSE AddDays(NextDay(d), n - 1)
RECURSIVE SubDays(_, _)
SubDays(d, n) == IF n = 0 THEN d ELSE SubDays(PrevDay(d), n - 1)

\* the days from the epoch date to d, for d not before it
RECURSIVE DaysSinceEpoch(_)
DaysSinceEpoch(d) == IF d = EpochDate THEN 0 ELSE 1 + DaysSinceEpoch(PrevDay(d))

\* jdatetime.datetime.fromgregorian(datetime=t): the date and the time of day
DateOf(t) == AddDays(EpochDate, t \div SecondsPerDay)
\* weekday(): Saturday is 0
Weekday(d) == DaysSinceEpoch(d) % 7

\* a number in n decimal digits
RECURSIVE Padded(_, _)
Padded(x, n) == IF n = 0 THEN <<>> ELSE Append(Padded(x \div 10, n - 1), 48 + (x % 10))
Text(codes) == [k |-> "text", v |-> codes]

\* strftime("%Y/%m/%d")
FormatDate(d) == Text(Padded(d[1], 4) \o <<47>> \o Padded(d[2], 2) \o <<47>> \o Padded(d[3], 2))
\* strftime("%H:%M:%S")
FormatTime(t) ==
  LET sod == t % SecondsPerDay
  IN  Text(Padded(sod \div 3600, 2) \o <<58>> \o Padded((sod % 3600) \div 60, 2)
           \o <<58>> \o Padded(sod % 60, 2))

\* int() of a str of digits
RECURSIVE ParseInt(_)
ParseInt(codes) ==
  IF codes = <<>> THEN 0
  ELSE 10 * ParseInt(SubSeq(codes, 1, Len(codes) - 1)) + (codes[Len(codes)] - 48)
\* strptime(s, "%Y/%m/%d")
ParseDate(s) ==
  <<ParseInt(SubSeq(s.v, 1, 4)), ParseInt(SubSeq(s.v, 6, 7)), ParseInt(SubSeq(s.v, 9, 10))>>

\* lines 252-261, on the clock value read at line 254
get_current_saturday(t) == FormatDate(SubDays(DateOf(t), Weekday(DateOf(t))))

TimeVal(t) == [k |-> "time", t |-> t]
MinInterval == 300

\* a rate limit that wants more than five minutes
should_record_login_Strict(ld, t) ==
  IF ld.last_login_time = PyNone THEN TRUE
  ELSE t - ld.last_login_time.t > MinInterval

\* lines 263-269, on the clock value read at line 265
should_record_login(ld, t) ==
  IF ld.last_login_time = PyNone THEN TRUE
  ELSE t - ld.last_login_time.t >= MinInterval

\* a rollover that keeps the old bucket
Rollover_NoClear(ld, current_saturday) ==
  [ld EXCEPT !.current_saturday = current_saturday]

\* lines 279-281
Rollover(ld, current_saturday) ==
  IF ld.current_saturday # current_saturday
  THEN [ld EXCEPT !.current_week = <<>>, !.current_saturday = current_saturday]
  ELSE ld

\* list.sort() of strs
RECURSIVE InsertText(_, _)
InsertText(sorted, x) ==
  IF sorted = <<>> THEN <<x>>
  ELSE IF StrLess(x.v, Head(sorted).v) THEN <<x>> \o sorted
  ELSE <<Head(sorted)>> \o InsertText(Tail(sorted), x)
RECURSIVE SortedTexts(_)
SortedTexts(l) ==
  IF l = <<>> THEN <<>>
  ELSE InsertText(SortedTexts(SubSeq(l, 1, Len(l) - 1)), l[Len(l)])

Contains(l, x) == \E i \in DOMAIN l : l[i] = x

\* lines 282-287
AddLogin(ld, current_date, current_time_str) ==
  LET week == IF current_date \in DOMAIN ld.current_week THEN ld.current_week
              ELSE (current_date :> <<>>) @@ ld.current_week
      logins == week[current_date]
  IN  [ld EXCEPT !.current_week =
         IF Contains(logins, current_time_str) THEN week
         ELSE [week EXCEPT ![current_date] = SortedTexts(Append(logins, current_time_str))]]

\* a call that is refused still stamps its time as the last login
update_login_data_StampAlways(ld, t1, t2, t3) ==
  IF ~should_record_login(ld, t1) THEN [ld EXCEPT !.last_login_time = TimeVal(t1)]
  ELSE [AddLogin(Rollover(ld, get_current_saturday(t3)),
                 FormatDate(DateOf(t2)), FormatTime(t2))
          EXCEPT !.last_login_time = TimeVal(t2)]

\* lines 271-288, on the clock values read at lines 265, 275 and 254
update_login_data(ld, t1, t2, t3) ==
  IF ~should_record_login(ld, t1) THEN ld
  ELSE [AddLogin(Rollover(ld, get_current_saturday(t3)),
                 FormatDate(DateOf(t2)), FormatTime(t2))
          EXCEPT !.last_login_time = TimeVal(t2)]

\* .get(date_str, [])
LoginsOn(ld, date_str) ==
  IF date_str \in DOMAIN ld.current_week THEN ld.current_week[date_str] ELSE <<>>

\* a report of the six days after the first
get_week_report_SixDays(ld, t) ==
  LET saturday == IF Truthy(ld.current_saturday) THEN ld.current_saturday
                  ELSE get_current_saturday(t)
      current_saturday == ParseDate(saturday)
  IN  [saturday |-> saturday,
       days |-> [i \in 1..6 |->
                   LET date_str == FormatDate(AddDays(current_saturday, i))
                   IN  [date |-> date_str, day_name |-> i,
                        logins |-> LoginsOn(ld, date_str),
                        count |-> Len(LoginsOn(ld, date_str))]]]

\* lines 290-308, on the clock value get_current_saturday would read
get_week_report(ld, t) ==
  LET saturday == IF Truthy(ld.current_saturday) THEN ld.current_saturday
                  ELSE get_current_saturday(t)
      current_saturday == ParseDate(saturday)
  IN  [saturday |-> saturday,
       days |-> [i \in 1..7 |->
                   LET date_str == FormatDate(AddDays(current_saturday, i - 1))
                   IN  [date |-> date_str, day_name |-> i,
                        logins |-> LoginsOn(ld, date_str),
                        count |-> Len(LoginsOn(ld, date_str))]]]

\* the longest the clock advances between the first and the last clock read
\* of one call
MaxLatency == 1

\* the moments a request may arrive at: around the rate limit, the next
\* day, and around the end of the week
Instants ==
  {MinInterval - 1, MinInterval, SecondsPerDay,
   SecondsPerWeek - MinInterval, SecondsPerWeek - 1, SecondsPerWeek,
   SecondsPerWeek + MinInterval}

NoLoginData ==
  [current_week |-> <<>>, current_saturday |-> PyNone, last_login_time |-> PyNone]

\* lt_upd: whether the call recorded the visit, when it was made, the time
\* it recorded, and whether the bucket was empty before it
NoUpdate == [acc |-> FALSE, t |-> 0, rec |-> 0, fresh |-> FALSE]
\* lt_last: the call, when it was made, whether it recorded the visit, the
\* anchor stored before it, the week start it computed (or would have), the
\* date and time of day it recorded, whether it replaced the bucket, and the
\* update_login_data call before it
NoCall == [op |-> "none", t |-> 0, acc |-> FALSE, anchor |-> PyNone, cs |-> PyNone,
           date |-> PyNone, time |-> PyNone, rolled |-> FALSE, prev |-> NoUpdate]

LtOff ==
  /\ now = 0 /\ login_data = NoLoginData /\ lt_last = NoCall /\ lt_upd = NoUpdate

LtInit == LtOff

\* time passes until the next request
Tick ==
  /\ \E t \in Instants : t > now /\ now' = t
  /\ lt_last' = NoCall
  /\ UNCHANGED <<login_data, lt_upd>>

\* a request for "/": update_login_data (line 504); the clock is read at
\* lines 265, 275 and 254
RecordVisit ==
  \E t2 \in now..(now + MaxLatency) : \E t3 \in t2..(now + MaxLatency) :
    LET acc == should_record_login(login_data, now)
        cs == get_current_saturday(IF acc THEN t3 ELSE now)
    IN  /\ login_data' = update_login_data(login_data, now, t2, t3)
        /\ now' = IF acc THEN t3 ELSE now
        /\ lt_last' = [op |-> "update", t |-> now, acc |-> acc,
                       anchor |-> login_data.current_saturday, cs |-> cs,
                       date |-> IF acc THEN FormatDate(DateOf(t2)) ELSE PyNone,
                       time |-> IF acc THEN FormatTime(t2) ELSE PyNone,
                       rolled |-> acc /\ login_data.current_saturday # cs,
                       prev |-> lt_upd]
        /\ lt_upd' = IF acc THEN [acc |-> TRUE, t |-> now, rec |-> t2,
                                  fresh |-> login_data.current_week = <<>>]
                     ELSE NoUpdate

\* a request for "/get_login_report": get_week_report (line 512), whose
\* result is get_week_report(login_data, now)
WeekReport ==
  /\ lt_last' = [NoCall EXCEPT !.op = "report", !.t = now,
                               !.anchor = login_data.current_saturday,
                               !.cs = get_current_saturday(now)]
  /\ UNCHANGED <<now, login_data, lt_upd>>

(***************************************************************************)
(* The login tracker under concurrent requests                             *)
(*                                                                         *)
(* Every request runs in a thread of its own, and the interpreter may      *)
(* switch threads between any two statements: a thread takes one step per  *)
(* statement that reads or writes login_data or reads the clock.  No       *)
(* statement of update_login_data or get_week_report takes a lock.         *)
(***************************************************************************)
Writers == {"w1", "w2"}
Readers == {"r1"}

\* the clock starts at the first second of a week and moves once, to the
\* first second of the next week
ThInstants == {SecondsPerWeek}

\* ct, t: the clock read at lines 265 and 275; cs: line 278
WriterIdle == [pc |-> "idle", ct |-> 0, t |-> 0, cs |-> PyNone]
\* saturday: line 293; i: line 299; logins: line 304; days: line 294
ReaderIdle == [pc |-> "idle", saturday |-> PyNone, i |-> 0, logins |-> <<>>, days |-> <<>>]

ThOff == wr = <<>> /\ rd = <<>>

ThInit ==
  /\ wr = [w \in Writers |-> WriterIdle]
  /\ rd = [r \in Readers |-> ReaderIdle]

\* strftime at lines 277 and 284 of the clock value read at line 275
CurrentDate(w) == FormatDate(DateOf(wr[w].t))
CurrentTimeStr(w) == FormatTime(wr[w].t)

\* time passes
ThTick ==
  /\ \E t \in ThInstants : t > now /\ now' = t
  /\ UNCHANGED <<login_data, lt_last, lt_upd, wr, rd>>

\* a request for "/" (line 504) reads the clock at line 265
UlReadClock ==
  \E w \in Writers :
    /\ wr[w].pc = "idle"
    /\ wr' = [wr EXCEPT ![w] = [@ EXCEPT !.pc = "l266", !.ct = now]]
    /\ UNCHANGED <<ltvars, rd>>

\* lines 266-269 and 272-273
UlRateLimit ==
  \E w \in Writers :
    /\ wr[w].pc = "l266"
    /\ wr' = [wr EXCEPT ![w] =
                IF should_record_login(login_data, wr[w].ct)
                THEN [@ EXCEPT !.pc = "l275"]
                ELSE WriterIdle]
    /\ UNCHANGED <<ltvars, rd>>

\* line 275
UlNow ==
  \E w \in Writers :
    /\ wr[w].pc = "l275"
    /\ wr' = [wr EXCEPT ![w] = [@ EXCEPT !.pc = "l278", !.t = now]]
    /\ UNCHANGED <<ltvars, rd>>

\* line 278: get_current_saturday reads the clock at line 254
UlSaturday ==
  \E w \in Writers :
    /\ wr[w].pc = "l278"
    /\ wr' = [wr EXCEPT ![w] = [@ EXCEPT !.pc = "l279", !.cs = get_current_saturday(now)]]
    /\ UNCHANGED <<ltvars, rd>>

\* line 279
UlCompare ==
  \E w \in Writers :
    /\ wr[w].pc = "l279"
    /\ wr' = [wr EXCEPT ![w].pc =
                IF login_data.current_saturday # wr[w].cs THEN "l280" ELSE "l282"]
    /\ UNCHANGED <<ltvars, rd>>

\* line 280
UlClear ==
  \E w \in Writers :
    /\ wr[w].pc = "l280"
    /\ login_data' = [login_data EXCEPT !.current_week = <<>>]
    /\ wr' = [wr EXCEPT ![w].pc = "l281"]
    /\ UNCHANGED <<now, lt_last, lt_upd, rd>>

\* line 281
UlAnchor ==
  \E w \in Writers :
    /\ wr[w].pc = "l281"
    /\ login_data' = [login_data EXCEPT !.current_saturday = wr[w].cs]
    /\ wr' = [wr EXCEPT ![w].pc = "l282"]
    /\ UNCHANGED <<now, lt_last, lt_upd, rd>>

\* line 282
UlHasDate ==
  \E w \in Writers :
    /\ wr[w].pc = "l282"
    /\ wr' = [wr EXCEPT ![w].pc =
                IF CurrentDate(w) \in DOMAIN login_data.current_week THEN "l285"
                ELSE "l283"]
    /\ UNCHANGED <<ltvars, rd>>

\* line 283
UlNewDate ==
  \E w \in Writers :
    /\ wr[w].pc = "l283"
    /\ login_data' = [login_data EXCEPT !.current_week = (CurrentDate(w) :> <<>>) @@ @]
    /\ wr' = [wr EXCEPT ![w].pc = "l285"]
    /\ UNCHANGED <<now, lt_last, lt_upd, rd>>

\* lines 285-287 look the date up again: KeyError when another thread has
\* replaced the bucket, and the request ends with the exception
UlKeyError ==
  \E w \in Writers :
    /\ wr[w].pc \in {"l285", "l286", "l287"}
    /\ CurrentDate(w) \notin DOMAIN login_data.current_week
    /\ wr' = [wr EXCEPT ![w] = WriterIdle]
    /\ UNCHANGED <<ltvars, rd>>

\* line 285
UlHasTime ==
  \E w \in Writers :
    /\ wr[w].pc = "l285"
    /\ CurrentDate(w) \in DOMAIN login_data.current_week
    /\ wr' = [wr EXCEPT ![w].pc =
                IF Contains(login_data.current_week[CurrentDate(w)], CurrentTimeStr(w))
                THEN "l288" ELSE "l286"]
    /\ UNCHANGED <<ltvars, rd>>

\* line 286
UlAppend ==
  \E w \in Writers :
    /\ wr[w].pc = "l286"
    /\ CurrentDate(w) \in DOMAIN login_data.current_week
    /\ login_data' = [login_data EXCEPT !.current_week[CurrentDate(w)] =
                                          Append(@, CurrentTimeStr(w))]
    /\ wr' = [wr EXCEPT ![w].pc = "l287"]
    /\ UNCHANGED <<now, lt_last, lt_upd, rd>>

\* line 287
UlSort ==
  \E w \in Writers :
    /\ wr[w].pc = "l287"
    /\ CurrentDate(w) \in DOMAIN login_data.current_week
    /\ login_data' = [login_data EXCEPT !.current_week[CurrentDate(w)] = SortedTexts(@)]
    /\ wr' = [wr EXCEPT ![w].pc = "l288"]
    /\ UNCHANGED <<now, lt_last, lt_upd, rd>>

\* line 288, and the return
UlStore ==
  \E w \in Writers :
    /\ wr[w].pc = "l288"
    /\ login_data' = [login_data EXCEPT !.last_login_time = TimeVal(wr[w].t)]
    /\ wr' = [wr EXCEPT ![w] = WriterIdle]
    /\ UNCHANGED <<now, lt_last, lt_upd, rd>>

\* line 300-301 for the day the loop of line 299 is at
DateStr(r) == FormatDate(AddDays(ParseDate(rd[r].saturday), rd[r].i))

\* a request for "/get_login_report" (line 512) reads the anchor at line 293
RpAnchor ==
  \E r \in Readers :
    /\ rd[r].pc = "idle"
    /\ rd' = [rd EXCEPT ![r] =
                [@ EXCEPT !.pc = "l304",
                          !.saturday = IF Truthy(login_data.current_saturday)
                                       THEN login_data.current_saturday
                                       ELSE get_current_saturday(now)]]
    /\ UNCHANGED <<ltvars, wr>>

\* line 304
RpLogins ==
  \E r \in Readers :
    /\ rd[r].pc = "l304"
    /\ rd' = [rd EXCEPT ![r] = [@ EXCEPT !.pc = "l305",
                                         !.logins = LoginsOn(login_data, DateStr(r))]]
    /\ UNCHANGED <<ltvars, wr>>

\* lines 305-307, and line 299 for the next day
RpCount ==
  \E r \in Readers :
    /\ rd[r].pc = "l305"
    /\ rd' = [rd EXCEPT ![r] =
                [@ EXCEPT !.pc = IF rd[r].i = 6 THEN "l308" ELSE "l304",
                          !.i = @ + 1,
                          !.logins = <<>>,
                          !.days = Append(@, [date |-> DateStr(r), day_name |-> rd[r].i + 1,
                                              logins |-> rd[r].logins,
                                              count |-> Len(LoginsOn(login_data, DateStr(r)))])]]
    /\ UNCHANGED <<ltvars, wr>>

\* line 308
RpReturn ==
  \E r \in Readers :
    /\ rd[r].pc = "l308"
    /\ rd' = [rd EXCEPT ![r] = ReaderIdle]
    /\ UNCHANGED <<ltvars, wr>>

(***************************************************************************)
(* Specifications                                                          *)
(***************************************************************************)
vars == <<pmvars, glvars, ltvars, thvars, ixvars>>

MinerNext ==
  \/ PmStart /\ UNCHANGED <<glvars, ltvars, thvars, ixvars>>
  \/ PmConnect /\ UNCHANGED <<glvars, ltvars, thvars, ixvars>>
  \/ PmSend /\ UNCHANGED <<glvars, ltvars, thvars, ixvars>>
  \/ PmRecvData /\ UNCHANGED <<glvars, ltvars, thvars, ixvars>>
  \/ PmRecvEnd /\ UNCHANGED <<glvars, ltvars, thvars, ixvars>>
  \/ PmRecvError /\ UNCHANGED <<glvars, ltvars, thvars, ixvars>>
  \/ PmKeep /\ UNCHANGED <<glvars, ltvars, thvars, ixvars>>
  \/ PmFinish /\ UNCHANGED <<glvars, ltvars, thvars, ixvars>>

\* one poll_miner call against a device that may do anything
MinerInit == PmInit /\ GlOff /\ LtOff /\ ThOff /\ IxOff
SpecMiner == MinerInit /\ [][MinerNext]_vars

\* the thread that runs the call keeps running
FairSpecMiner == SpecMiner /\ WF_vars(MinerNext)

RefreshNext ==
  \/ GlStart /\ UNCHANGED <<pmvars, ltvars, thvars, ixvars>>
  \/ GlSubmit /\ UNCHANGED <<pmvars, ltvars, thvars, ixvars>>
  \/ WorkerTake /\ UNCHANGED <<pmvars, ltvars, thvars, ixvars>>
  \/ WorkerFinish /\ UNCHANGED <<pmvars, ltvars, thvars, ixvars>>
  \/ GlCollect /\ UNCHANGED <<pmvars, ltvars, thvars, ixvars>>
  \/ GlExit /\ UNCHANGED <<pmvars, ltvars, thvars, ixvars>>

\* one refresh of the configured devices
RefreshInit ==
  /\ \E ip \in {PyNone, Str("10.0.0.1")} :
       GlInitWith([names |-> MINER_NAMES, ports |-> MINER_PORTS, ip |-> ip], Behaviours)
  /\ PmOff /\ LtOff /\ ThOff /\ IxOff
SpecRefresh == RefreshInit /\ [][RefreshNext]_vars

\* one refresh of a device list longer than the worker limit: PoolTasks
\* devices, named 131, 132, ... on ports 204, 205, ...
PoolTasks == 7
PoolInit ==
  /\ GlInitWith([names |-> [i \in 1..PoolTasks |-> Digits(130 + i)],
                 ports |-> [i \in 1..PoolTasks |-> 203 + i],
                 ip |-> Str("10.0.0.1")],
                {BehDown, BehBadSummary})
  /\ PmOff /\ LtOff /\ ThOff /\ IxOff
SpecPool == PoolInit /\ [][RefreshNext]_vars

LoginNext ==
  \/ Tick /\ UNCHANGED <<pmvars, glvars, thvars, ixvars>>
  \/ RecordVisit /\ UNCHANGED <<pmvars, glvars, thvars, ixvars>>
  \/ WeekReport /\ UNCHANGED <<pmvars, glvars, thvars, ixvars>>

\* the login tracker, one request at a time
LoginInit == LtInit /\ PmOff /\ GlOff /\ ThOff /\ IxOff
SpecLogin == LoginInit /\ [][LoginNext]_vars

ThreadsNext ==
  \/ ThTick /\ UNCHANGED <<pmvars, glvars, ixvars>>
  \/ UlReadClock /\ UNCHANGED <<pmvars, glvars, ixvars>>
  \/ UlRateLimit /\ UNCHANGED <<pmvars, glvars, ixvars>>
  \/ UlNow /\ UNCHANGED <<pmvars, glvars, ixvars>>
  \/ UlSaturday /\ UNCHANGED <<pmvars, glvars, ixvars>>
  \/ UlCompare /\ UNCHANGED <<pmvars, glvars, ixvars>>
  \/ UlClear /\ UNCHANGED <<pmvars, glvars, ixvars>>
  \/ UlAnchor /\ UNCHANGED <<pmvars, glvars, ixvars>>
  \/ UlHasDate /\ UNCHANGED <<pmvars, glvars, ixvars>>
  \/ UlNewDate /\ UNCHANGED <<pmvars, glvars, ixvars>>
  \/ UlKeyError /\ UNCHANGED <<pmvars, glvars, ixvars>>
  \/ UlHasTime /\ UNCHANGED <<pmvars, glvars, ixvars>>
  \/ UlAppend /\ UNCHANGED <<pmvars, glvars, ixvars>>
  \/ UlSort /\ UNCHANGED <<pmvars, glvars, ixvars>>
  \/ UlStore /\ UNCHANGED <<pmvars, glvars, ixvars>>
  \/ RpAnchor /\ UNCHANGED <<pmvars, glvars, ixvars>>
  \/ RpLogins /\ UNCHANGED <<pmvars, glvars, ixvars>>
  \/ RpCount /\ UNCHANGED <<pmvars, glvars, ixvars>>
  \/ RpReturn /\ UNCHANGED <<pmvars, glvars, ixvars>>

\* the login tracker with requests running concurrently
ThreadsInit == LtOff /\ ThInit /\ PmOff /\ GlOff /\ IxOff
SpecThreads == ThreadsInit /\ [][ThreadsNext]_vars

IndexNext ==
  \/ GlStart /\ UNCHANGED <<pmvars, ltvars, thvars, ixvars>>
  \/ GlSubmit /\ UNCHANGED <<pmvars, ltvars, thvars, ixvars>>
  \/ WorkerTake /\ UNCHANGED <<pmvars, ltvars, thvars, ixvars>>
  \/ WorkerFinish /\ UNCHANGED <<pmvars, ltvars, thvars, ixvars>>
  \/ GlCollect /\ UNCHANGED <<pmvars, ltvars, thvars, ixvars>>
  \/ GlExit /\ UNCHANGED <<pmvars, ltvars, thvars, ixvars>>
  \/ IndexRender /\ UNCHANGED <<pmvars, glvars, ltvars, thvars>>

\* one request for "/" while every device either answers both commands or
\* times out on both
IndexInit ==
  /\ GlInitWith([names |-> MINER_NAMES, ports |-> MINER_PORTS, ip |-> Str("10.0.0.1")],
                {BehUp, BehTimeout})
  /\ IxInit /\ PmOff /\ LtOff /\ ThOff
SpecIndex == IndexInit /\ [][IndexNext]_vars

(***************************************************************************)
(* calculate_total_hashrate on the snapshots get_live_data can return      *)
(***************************************************************************)
\* the devices of a snapshot that is drawn as input
TotalDevices == 3

\* what poll_miner can leave in "hashrate" for a device that answered: none,
\* the rounded TH/s value, a small MHS av as it came (a number, a str that
\* float() accepts, a str it rejects, a list)
HashrateValues ==
  {PyNone, Num(45, 0), Num(12346, 3), Str("120"), Str("n/a"), List(<<Num(1, 0)>>)}

\* the records get_live_data can hold for a device: alive (lines 204-212),
\* offline (lines 174-183, 203) or the record of line 237
RecordsFor(m) ==
  {[OfflineResult(m) EXCEPT !.alive = TRUE, !.hashrate = h] : h \in HashrateValues}
    \cup {OfflineResult(m), FallbackResult(m)}

\* a request for "/" whose get_live_data call has returned a snapshot
TotalInit ==
  /\ config = [names |-> MINER_NAMES, ports |-> MINER_PORTS, ip |-> Str("10.0.0.1")]
  /\ net = {} /\ gl_pc = "done"
  /\ miners = build_miners(config.names, config.ports, config.ip)
  /\ futs = <<>> /\ queue = <<>> /\ threads = 0 /\ idle = 0 /\ out = <<>>
  /\ \E n \in 1..TotalDevices :
       \E recs \in [1..n -> UNION {RecordsFor(miners[i]) : i \in 1..n}] :
         /\ \A i \in 1..n : recs[i] \in RecordsFor(miners[i])
         /\ snapshot = recs
  /\ IxInit /\ PmOff /\ LtOff /\ ThOff

TotalNext ==
  \/ IndexRender /\ UNCHANGED <<pmvars, glvars, ltvars, thvars>>

SpecTotal == TotalInit /\ [][TotalNext]_vars

(***************************************************************************)
(* Claims about one poll_miner call                                        *)
(***************************************************************************)
\* C2: the record poll_miner returns is alive exactly when at least one of
\* its two calls decoded a reply, whatever the decoded value is.
C2_AliveIffDecoded ==
  pm_pc = "returned" => (pm_result.val.alive <=> pm_dec # {})

\* C10: whatever the device does, every send_tcp_json call returns and the
\* poll ends.
C10_PollTerminates == <>(pm_pc \in {"returned", "raised"})

(***************************************************************************)
(* Claims about a refresh                                                  *)
(***************************************************************************)
\* both calls of device i failed: neither decoded a reply
Unreachable(i) ==
  /\ ~Decoded(miners[i].ip, futs[i].beh[1]).ok
  /\ ~Decoded(miners[i].ip, futs[i].beh[2]).ok

\* the positions of the snapshot that hold the record of device i
RecordsOf(i) ==
  {j \in DOMAIN snapshot : snapshot[j].name = Label(miners[i].name, miners[i].port)}

Refreshed == gl_pc = "done" /\ Truthy(config.ip)

\* C1: a refresh returns exactly one record per configured device, and the
\* record of every unreachable device is offline with hashrate, uptime and
\* power absent and no board temperatures.
C1_UnreachableOffline ==
  Refreshed =>
    /\ Len(snapshot) = Len(config.names)
    /\ \A i \in DOMAIN miners : Cardinality(RecordsOf(i)) = 1
    /\ \A i \in DOMAIN miners : Unreachable(i) =>
         \A j \in RecordsOf(i) :
           /\ DOMAIN snapshot[j] = {"name", "alive", "hashrate", "uptime", "power", "board_temps"}
           /\ snapshot[j].alive = FALSE
           /\ snapshot[j].hashrate = PyNone /\ snapshot[j].uptime = PyNone
           /\ snapshot[j].power = PyNone /\ snapshot[j].board_temps = <<>>

C1_Witness ==
  /\ Refreshed
  /\ \E i, j \in DOMAIN miners :
       /\ Unreachable(i) /\ ~Unreachable(j)
       /\ \E r \in RecordsOf(j) : snapshot[r].alive

\* C3: a task that raises becomes an offline record of its device and never
\* leaves get_live_data as an exception; no queued task waits for another
\* task to end, every task runs to its end, and the record of every other
\* device is its own poll result.
C3_FailureIsolated ==
  /\ gl_pc \notin {"unwind", "raised"}
  /\ Len(queue) <= threads - Cardinality(Running)
  /\ Refreshed =>
       \A i \in DOMAIN miners :
         /\ futs[i].st = "finished"
         /\ LET own == poll_miner(miners[i], futs[i].beh[1], futs[i].beh[2])
            IN  \A j \in RecordsOf(i) :
                  snapshot[j] = IF own.ok THEN own.val
                                ELSE [name |-> Label(miners[i].name, miners[i].port),
                                      alive |-> FALSE]

C3_Witness ==
  /\ Refreshed
  /\ \E i, j \in DOMAIN miners :
       /\ ~futs[i].res.ok
       /\ futs[j].res.ok /\ \E r \in RecordsOf(j) : snapshot[r].alive

\* C9: no more than MAX_WORKERS device tasks run at any moment; a task
\* beyond the limit stays in the queue, not started, while every worker runs
\* a task.
C9_BoundedWorkers ==
  /\ Cardinality(Running) <= MAX_WORKERS
  /\ \A k \in DOMAIN queue : futs[queue[k]].st = "pending"
  /\ \A i \in DOMAIN futs : futs[i].st = "pending" => \E k \in DOMAIN queue : queue[k] = i

C9_Witness ==
  /\ Cardinality(Running) = MAX_WORKERS
  /\ queue # <<>>

(***************************************************************************)
(* Claims about the login tracker                                          *)
(***************************************************************************)
\* the time entries stored in the week bucket
RECURSIVE EntriesOf(_, _)
EntriesOf(week, dates) ==
  IF dates = {} THEN 0
  ELSE LET d == CHOOSE x \in dates : TRUE
       IN  Len(week[d]) + EntriesOf(week, dates \ {d})
TotalEntries == EntriesOf(login_data.current_week, DOMAIN login_data.current_week)

\* the second of two successive update_login_data calls has just returned,
\* and the first recorded its visit into an empty bucket
TwoVisits == lt_last.op = "update" /\ lt_last.prev.acc /\ lt_last.prev.fresh

\* C4 as stated: of two successive visits, the first accepted, one time
\* entry is stored when the second is made less than 300 seconds after the
\* first, and two when it is made 300 seconds or more after it.
C4_OneOrTwoEntries ==
  TwoVisits =>
    IF lt_last.t - lt_last.prev.t < MinInterval THEN TotalEntries = 1
    ELSE TotalEntries = 2

\* C4, amended: one entry when the second visit is made less than 300
\* seconds after the time the first recorded; when it is made 300 seconds or
\* more after it, two entries if it keeps the bucket, and one, its own, if
\* it starts a new week.
C4_OneOrTwoEntriesSameWeek ==
  TwoVisits =>
    IF lt_last.t - lt_last.prev.rec < MinInterval THEN TotalEntries = 1 /\ ~lt_last.acc
    ELSE /\ lt_last.acc
         /\ TotalEntries = IF lt_last.rolled THEN 1 ELSE 2

C4_Witness ==
  /\ TwoVisits /\ lt_last.acc /\ ~lt_last.rolled /\ TotalEntries = 2
  /\ lt_last.t - lt_last.prev.rec = MinInterval

\* the report a get_week_report call returns in this state
ReportNow == get_week_report(login_data, now)

C6_ReportRollsAnchor ==
  (lt_last.op = "report" /\ lt_last.anchor # PyNone /\ lt_last.cs # lt_last.anchor) =>
    /\ ReportNow.saturday = lt_last.cs
    /\ \A i \in 1..7 : ReportNow.days[i].logins = <<>>

\* C7: every date of the week bucket lies within the seven days that start
\* at the stored anchor.
C7_DatesWithinWeek ==
  \A date \in DOMAIN login_data.current_week :
    /\ login_data.current_saturday # PyNone
    /\ \E i \in 0..6 :
         date = FormatDate(AddDays(ParseDate(login_data.current_saturday), i))

(***************************************************************************)
(* Claims about concurrent requests                                        *)
(***************************************************************************)
\* a get_week_report call is about to read login_data: the anchor (line 293)
\* or a day of the bucket (lines 304 and 305)
ReaderReads == \E r \in Readers : rd[r].pc \in {"idle", "l304", "l305"}

\* line 280 has replaced the bucket and line 281 has not yet stored the new
\* anchor: the stored anchor is the week of the last recorded visit, and the
\* bucket has no entry
ClearedUnderOldAnchor ==
  \E w \in Writers :
    /\ wr[w].pc = "l281"
    /\ login_data.current_week = <<>>
    /\ login_data.current_saturday \notin {PyNone, wr[w].cs}
    /\ login_data.last_login_time # PyNone
    /\ get_current_saturday(login_data.last_login_time.t) = login_data.current_saturday

\* C8: a get_week_report call never reads login_data mid-rollover; no state
\* it can read pairs a cleared bucket with the old anchor.
C8_NoMidRollover == ReaderReads => ~ClearedUnderOldAnchor

(***************************************************************************)
(* Claims about the page "/"                                               *)
(***************************************************************************)
\* the devices that behaved as beh in this refresh
DevicesThat(beh) == {i \in DOMAIN futs : futs[i].st = "finished" /\ futs[i].beh = beh}

\* C11: when the page is rendered, every device that returned the valid
\* summary (MHS av 45000000, Uptime 93784) and the valid devs reply (58.3 and
\* 61.0) is alive with hashrate 45.0, uptime "1d 2h 3m" and board
\* temperatures [58.3, 61.0]; every device that timed out on both calls is not
\* alive, with hashrate and uptime absent and no board temperatures; and the
\* total hashrate is 45.0 for each device that answered: 45.0 when one did.
C11_EndToEnd ==
  ix_pc = "rendered" =>
    /\ \A i \in DevicesThat(BehUp) : \A j \in RecordsOf(i) :
         /\ snapshot[j].alive = TRUE
         /\ snapshot[j].hashrate = [k |-> "num", m |-> 45, e |-> 0]
         /\ snapshot[j].uptime =
              [k |-> "pretty", v |-> <<[n |-> 1, u |-> "d"], [n |-> 2, u |-> "h"],
                                       [n |-> 3, u |-> "m"]>>]
         /\ snapshot[j].board_temps =
              <<[k |-> "num", m |-> 583, e |-> 1], [k |-> "num", m |-> 61, e |-> 0]>>
    /\ \A i \in DevicesThat(BehTimeout) : \A j \in RecordsOf(i) :
         /\ snapshot[j].alive = FALSE
         /\ snapshot[j].hashrate = PyNone /\ snapshot[j].uptime = PyNone
         /\ snapshot[j].board_temps = <<>>
    /\ \A i \in DOMAIN miners : Cardinality(RecordsOf(i)) = 1
    /\ total_hashrate = [k |-> "num", m |-> 45 * Cardinality(DevicesThat(BehUp)), e |-> 0]

C11_Witness ==
  /\ ix_pc = "rendered"
  /\ Cardinality(DevicesThat(BehUp)) = 1
  /\ DevicesThat(BehTimeout) # {}
  /\ total_hashrate = [k |-> "num", m |-> 45, e |-> 0]

\* the record get_live_data keeps for device i, given what the device did
OwnRecord(i) ==
  LET own == poll_miner(miners[i], futs[i].beh[1], futs[i].beh[2])
  IN  IF own.ok THEN own.val
      ELSE [name |-> Label(miners[i].name, miners[i].port), alive |-> FALSE]

\* C12: the snapshot a refresh returns is in ascending lexicographic order of
\* the record labels, and holds for every device the record its own replies
\* give, whatever the order in which the tasks started and finished.
C12_SortedSnapshot ==
  Refreshed =>
    /\ \A j \in 1..(Len(snapshot) - 1) : StrLess(snapshot[j].name, snapshot[j + 1].name)
    /\ Len(snapshot) = Len(miners)
    /\ \A i \in DOMAIN miners : \E j \in DOMAIN snapshot : snapshot[j] = OwnRecord(i)

C12_Witness ==
  /\ Refreshed /\ Len(snapshot) = Len(MINER_NAMES)
  /\ \E i, j \in DOMAIN snapshot : i < j /\ snapshot[i].alive /\ ~snapshot[j].alive
  /\ \E i, j \in DOMAIN snapshot : i < j /\ ~snapshot[i].alive /\ snapshot[j].alive

\* C13: a request that reads the snapshot never waits for a refresh in
\* flight; while the request for "/" has not been answered and device polls
\* are running, the page can be rendered without waiting for them.
C13_ReadNeverWaits == (ix_pc = "polling" /\ Running # {}) => ENABLED IndexRender

(***************************************************************************)
(* Claims about the week report and the bucket                             *)
(***************************************************************************)
\* the number of login times the bucket stores for a date
StoredCount(date) ==
  IF date \in DOMAIN login_data.current_week
  THEN Len(login_data.current_week[date]) ELSE 0

\* C14: the report a get_week_report call returns has exactly 7 day entries,
\* the first for the reported anchor and each next one for the day after the
\* one before, and the count of each entry is the number of login times the
\* bucket stores for the entry's date.
C14_SevenDays ==
  lt_last.op = "report" =>
    /\ DOMAIN ReportNow.days = 1..7
    /\ ReportNow.days[1].date = ReportNow.saturday
    /\ \A i \in 1..6 :
         ParseDate(ReportNow.days[i + 1].date) = NextDay(ParseDate(ReportNow.days[i].date))
    /\ \A i \in 1..7 : ReportNow.days[i].count = StoredCount(ReportNow.days[i].date)

C14_Witness ==
  /\ lt_last.op = "report"
  /\ \E i, j \in 1..7 : ReportNow.days[i].count = 2 /\ ReportNow.days[j].count = 1

(***************************************************************************)
(* Claims about the total hashrate                                         *)
(***************************************************************************)
\* what a record adds to the total: its hashrate when it is alive and the
\* hashrate is a number or the str of one, and zero otherwise
Contribution(r) ==
  IF "alive" \in DOMAIN r /\ r.alive /\ "hashrate" \in DOMAIN r
  THEN IF r.hashrate.k = "num" THEN r.hashrate
       ELSE IF r.hashrate = [k |-> "str", v |-> "120"] THEN [k |-> "num", m |-> 120, e |-> 0]
       ELSE [k |-> "num", m |-> 0, e |-> 0]
  ELSE [k |-> "num", m |-> 0, e |-> 0]

\* the sum of the contributions of the records at the positions ps, in
\* thousandths
RECURSIVE SumThousandths(_, _)
SumThousandths(recs, ps) ==
  IF ps = {} THEN 0
  ELSE LET p == CHOOSE x \in ps : TRUE
           c == Contribution(recs[p])
       IN  c.m * Pow10(3 - c.e) + SumThousandths(recs, ps \ {p})

\* C15: the total computed for a snapshot has at most two decimals and is
\* the number of that form nearest to the sum of the hashrates of the
\* records that are alive and have a numeric hashrate; every other record
\* adds zero.
C15_TotalHashrate ==
  ix_pc = "rendered" =>
    /\ total_hashrate.k = "num" /\ total_hashrate.e <= 2
    /\ LET sum == SumThousandths(snapshot, DOMAIN snapshot)
           total == total_hashrate.m * Pow10(3 - total_hashrate.e)
           diff == IF sum > total THEN sum - total ELSE total - sum
       IN  2 * diff <= 10

C15_Witness ==
  /\ ix_pc = "rendered"
  /\ total_hashrate = [k |-> "num", m |-> 5735, e |-> 2]
  /\ \E i, j, l \in DOMAIN snapshot :
       /\ snapshot[i].alive /\ snapshot[i].hashrate = [k |-> "num", m |-> 12346, e |-> 3]
       /\ snapshot[j].alive /\ snapshot[j].hashrate = [k |-> "num", m |-> 45, e |-> 0]
       /\ ~snapshot[l].alive

(***************************************************************************)
(* Claims about malformed replies                                          *)
(***************************************************************************)
\* C16: a device whose summary reply decodes to an object, whatever its
\* fields hold, and whose devs reply is healthy is reported alive, with the
\* hashrate its summary gives and the board temperatures of its devs reply.
C16_MalformedFieldIsolated ==
  Refreshed =>
    \A i \in DOMAIN miners :
      (/\ Decoded(miners[i].ip, futs[i].beh[1]).ok
       /\ Decoded(miners[i].ip, futs[i].beh[1]).val.k = "dict"
       /\ Decoded(miners[i].ip, futs[i].beh[2]).ok
       /\ Decoded(miners[i].ip, futs[i].beh[2]).val = DevsGood) =>
        \A j \in RecordsOf(i) :
          /\ snapshot[j].alive
          /\ snapshot[j].hashrate = [k |-> "num", m |-> 45, e |-> 0]
          /\ snapshot[j].board_temps =
               <<[k |-> "num", m |-> 583, e |-> 1], [k |-> "num", m |-> 61, e |-> 0]>>

\* C17: an update_login_data call made less than 300 seconds after the last
\* recorded visit changes nothing: the bucket, the anchor and the time of the
\* last recorded visit are what they were.
C17_RateLimitedNoOp ==
  [][(/\ RecordVisit
      /\ login_data.last_login_time # PyNone
      /\ now - login_data.last_login_time.t < MinInterval)
       => login_data' = login_data]_vars

C17_Witness ==
  /\ lt_last.op = "update" /\ ~lt_last.acc
  /\ lt_last.t - login_data.last_login_time.t = MinInterval - 1
  /\ TotalEntries = 1

(***************************************************************************)
(* Claims about the bucket under concurrent requests                       *)
(***************************************************************************)
\* every login time the bucket stored before the step is stored after it
BucketKept ==
  \A date \in DOMAIN login_data.current_week :
    /\ date \in DOMAIN login_data'.current_week
    /\ \A k \in DOMAIN login_data.current_week[date] :
         Contains(login_data'.current_week[date], login_data.current_week[date][k])

\* C18: only re-anchoring destroys entries; a step that is not the clearing
\* of a re-anchoring (line 280, which line 281 follows) and leaves the stored
\* anchor as it was keeps every login time of every date.
C18_OnlyRollOverDestroys ==
  [][(login_data'.current_saturday = login_data.current_saturday /\ ~UlClear)
       => BucketKept]_vars

\* no time-of-day str twice in a list
NoDuplicates(l) == \A i, j \in DOMAIN l : i # j => l[i] # l[j]
\* a list of strs in ascending order
Ascending(l) == \A i, j \in DOMAIN l : i < j => ~StrLess(l[j].v, l[i].v)

\* C19: no list of the bucket holds a time-of-day str twice, and every list
\* is in ascending order once the sort of line 287 that follows an append
\* has run.
C19_NoDuplicatesSorted ==
  \A date \in DOMAIN login_data.current_week :
    /\ NoDuplicates(login_data.current_week[date])
    /\ (\A w \in DOMAIN wr : wr[w].pc # "l287") => Ascending(login_data.current_week[date])

(***************************************************************************)
(* Claims about the commands of one poll                                   *)
(***************************************************************************)
\* C20: a poll of a device with an address opens one connection for the
\* summary command and then one for the devs command, and no other: while
\* the poll runs the connections opened are a prefix of these two, and when
\* it ends they are exactly these two, whichever of them failed.
C20_OneSummaryOneDevs ==
  /\ \A k \in DOMAIN pm_conns : k <= 2 /\ pm_conns[k] = <<"summary", "devs">>[k]
  /\ (pm_pc \in {"returned", "raised"} /\ pm_miner.ip # PyNone) =>
       pm_conns = <<"summary", "devs">>
  /\ (pm_pc \in {"returned", "raised"} /\ pm_miner.ip = PyNone) => pm_conns = <<>>

\* the summary command failed, and the devs command was still sent and
\* answered
C20_Witness ==
  /\ pm_pc = "returned" /\ pm_miner.ip # PyNone
  /\ pm_conns = <<"summary", "devs">>
  /\ pm_dec = {"devs"}

\* C21: the rate limit holds for concurrent update_login_data calls; two
\* calls whose visit times (line 275) are less than 300 seconds apart never
\* both reach the sort of line 287, that is, never both append a time entry
\* at line 286.
C21_RateLimitUnderThreads ==
  \A w1, w2 \in DOMAIN wr :
    (w1 # w2 /\ wr[w1].pc = "l287" /\ wr[w2].pc = "l287") =>
      \/ wr[w1].t - wr[w2].t >= MinInterval
      \/ wr[w2].t - wr[w1].t >= MinInterval

====
